---- MODULE Spec2Model ----
(***************************************************************************)
(* Lyryc: the lyrics search orchestrator (src-tauri/src/lyrics.rs) and the *)
(* track-title normalizer (src-tauri/src/track_cleaning.rs).               *)
(*                                                                         *)
(* A Rust String is a sequence of characters; each character is a          *)
(* one-character TLA+ string and carries its UTF-8 width, because the code *)
(* measures and slices strings in bytes (str::len, &s[a..b]).              *)
(***************************************************************************)
EXTENDS Integers, Sequences, FiniteSets, TLC

VARIABLES
    pc,             \* position of the call being modelled
    track_name,     \* fetch_lyrics / clean_track_name argument
    artist_name,    \* fetch_lyrics argument
    lyrics_text,    \* parse_lrc_format / convert_plain_lyrics_to_lines argument
    json,           \* fetch_lyrics_from_url: the records of one provider response
    candidates,     \* Vec<LyricsCandidate>
    top_priority,   \* search_strict_priority: top_priority
    task,           \* the JoinSet: one entry per spawned fetch_lyrics_from_url
    token,          \* per_task_tokens: TRUE when the child token is cancelled
    cancel_all,     \* the parent CancellationToken: TRUE when cancelled
    best,           \* Option<(LyricsCandidate, Vec<LyricLine>)>
    best_priority,  \* u8
    timed_out,      \* the overall timeout(...) returned Err(Elapsed)
    search_result,  \* what search_strict_priority returned
    result,         \* what fetch_lyrics returned
    fn_out,         \* value returned by the pure function under check
    ws_state,       \* WebSocketState: the stored server, Option<Arc<WebSocketServer>>
    servers,        \* every WebSocketServer created, with the state of its start() task
    init_results,   \* what the init_extension_connection calls returned, in order
    connections,    \* every handle_connection task, with its forwarding task and channel
    clients,        \* WebSocketServer.clients: the client ids in the map
    track_tasks,    \* the handler tasks the track callback spawned, in the order spawned
    processed,      \* the handler tasks that have run, in the order they ran
    current_track,  \* TrackState: Option<TrackInfo>
    events          \* the events emitted on the AppHandle, in order

\* the state of the lyrics search and of the pure functions
lyrics_vars == <<pc, track_name, artist_name, lyrics_text, json, candidates, top_priority, task,
                 token, cancel_all, best, best_priority, timed_out, search_result, result,
                 fn_out>>

\* the state of the extension connection
socket_vars == <<ws_state, servers, init_results, connections, clients, track_tasks,
                 processed, current_track, events>>

vars == <<pc, track_name, artist_name, lyrics_text, json, candidates, top_priority, task, token,
          cancel_all, best, best_priority, timed_out, search_result, result,
          fn_out, socket_vars>>

(***************************************************************************)
(* Bounds                                                                  *)
(***************************************************************************)
\* longest title drawn for the pure-function specifications (characters)
MaxLen == 3
\* longest artist drawn for the candidate specification (characters)
MaxArtistLen == 1
\* most lyric lines one provider response decodes to
MaxLines == 1
\* longest title drawn for the separator and suffix rules (characters)
MaxTitleLen == 5
\* most lines of a lyrics text handed to a decoder
MaxTextLines == 3
\* most records in one provider response
MaxRecords == 2
\* most characters between a pair of brackets
MaxContentLen == 3
\* most characters before and after the separator of a title "A - B"
MaxBeforeLen == 4
MaxAfterLen == 2
\* most init_extension_connection calls
MaxCalls == 3
\* most connections a server accepts
MaxConnections == 2
\* most track messages received on the connections
MaxUpdates == 2
\* most messages waiting in the channel of a client
MaxPending == 1
\* most set_current_track commands
MaxCommands == 1

(***************************************************************************)
(* Strings                                                                 *)
(***************************************************************************)
\* Characters outside ASCII are named by their code point.
\* U+300C and U+300D are the Japanese quotation pair, U+3042 is a hiragana
\* letter; each takes three bytes in UTF-8.
LeftCorner == "U+300C"
RightCorner == "U+300D"
Hiragana == "U+3042"
\* the bracket pair of lines 26 and 51 and the corner-bracket pair of line 82
LeftLenticular == "U+3010"
RightLenticular == "U+3011"
LeftWhiteCorner == "U+300E"
RightWhiteCorner == "U+300F"
Dash == "-"

\* The word YouTube, kept as one unit of seven bytes: the patterns of the code
\* that reach it (YouTube\s*$, contains("youtube"), starts_with("youtube"))
\* match it as a whole and no pattern matches a part of it.
YouTube == "YouTube"

\* The characters titles and artists are drawn from: the Japanese quotation
\* pair, the two ASCII quote characters, the space, an ASCII letter and a
\* three-byte letter.
Chars == {LeftCorner, RightCorner, "\"", "'", " ", "a", Hiragana}

\* The characters the titles of the separator and suffix rules are drawn
\* from: the Japanese quotation pair, the space, an ASCII letter, a
\* three-byte letter, the hyphen and the word YouTube.
TitleChars == {LeftCorner, RightCorner, " ", "a", Hiragana, Dash, YouTube}

\* UTF-8 width of a character (str::len counts bytes).
Utf8Len(c) ==
    IF c \in {LeftCorner, RightCorner, Hiragana, LeftLenticular, RightLenticular,
               LeftWhiteCorner, RightWhiteCorner} THEN 3
    ELSE IF c = YouTube THEN Len("YouTube")
    ELSE 1

\* A value no String equals: the function panicked instead of returning.
Panic == <<"<panic>">>

\* Option::None
None == <<"<none>">>

RECURSIVE ByteLen(_)
ByteLen(s) == IF s = <<>> THEN 0 ELSE Utf8Len(Head(s)) + ByteLen(Tail(s))

\* the strings of at most n characters over the given characters
RECURSIVE StrSet(_, _)
StrSet(chars, n) ==
    IF n = 0 THEN {<<>>}
    ELSE LET shorter == StrSet(chars, n - 1)
         IN shorter \cup {Append(s, c) : s \in {t \in shorter : Len(t) = n - 1}, c \in chars}

\* The characters artists are drawn from: fetch_lyrics reads the artist only
\* through trim().is_empty() and through patterns that need a dash.
ArtistChars == {" ", "a"}

IsWhitespace(c) == c = " "

SetMin(S) == CHOOSE x \in S : \A y \in S : x <= y
SetMax(S) == CHOOSE x \in S : \A y \in S : x >= y

\* str::trim
Trim(s) ==
    LET keep == {i \in 1..Len(s) : ~IsWhitespace(s[i])}
    IN IF keep = {} THEN <<>> ELSE SubSeq(s, SetMin(keep), SetMax(keep))

\* s.trim().is_empty()
IsBlank(s) == Trim(s) = <<>>

StartsWith(s, c) == Len(s) >= 1 /\ s[1] = c
EndsWith(s, c) == Len(s) >= 1 /\ s[Len(s)] = c

\* str::contains with a string pattern
Contains(s, sub) ==
    \E i \in 1..(Len(s) - Len(sub) + 1) : SubSeq(s, i, i + Len(sub) - 1) = sub

\* str::split with a string pattern, collected: the pieces between the
\* leftmost non-overlapping occurrences
RECURSIVE Split(_, _)
Split(s, sep) ==
    LET at == {i \in 1..(Len(s) - Len(sep) + 1) : SubSeq(s, i, i + Len(sep) - 1) = sep}
    IN IF at = {} THEN <<s>>
       ELSE LET i == SetMin(at)
            IN <<SubSeq(s, 1, i - 1)>> \o Split(SubSeq(s, i + Len(sep), Len(s)), sep)

\* the separator " - "
SpacedDash == <<" ", Dash, " ">>

\* &s[from..to] with byte offsets: panics unless both offsets lie on
\* character boundaries and from <= to.
ByteSlice(s, from, to) ==
    LET Offset(k) == ByteLen(SubSeq(s, 1, k))
        starts == {k \in 0..Len(s) : Offset(k) = from}
        ends == {k \in 0..Len(s) : Offset(k) = to}
    IN IF starts = {} \/ ends = {} \/ from > to
       THEN Panic
       ELSE SubSeq(s, SetMin(starts) + 1, SetMax(ends))

(***************************************************************************)
(* track_cleaning.rs: clean_track_name                                     *)
(*                                                                         *)
(* Titles are drawn from Chars and TitleChars. Over these characters the    *)
(* patterns that need any other character (a slash, a pipe, a dot, a       *)
(* bracket other than the Japanese quotation pair, an en or em dash, or a  *)
(* keyword such as feat, ft, Music, Official) match nothing: replace_all   *)
(* returns its input and only the .trim() and the length guard that follow *)
(* it act. Those steps are modelled by KeepIfLonger on the trimmed string; *)
(* the steps below name the lines they stand for.                          *)
(***************************************************************************)

\* if !potential_result.is_empty() && potential_result.len() > n { cleaned = potential_result }
KeepIfLonger(cleaned, potential_result, n) ==
    IF potential_result # <<>> /\ ByteLen(potential_result) > n
    THEN potential_result
    ELSE cleaned

\* Regex open([^close]+)close, leftmost match, capture group 1; None without a match.
CaptureBetween(s, open, close) ==
    LET starts == {i \in 1..Len(s) :
                      /\ s[i] = open
                      /\ i + 1 <= Len(s)
                      /\ s[i + 1] # close
                      /\ \E j \in (i + 2)..Len(s) : s[j] = close}
    IN IF starts = {} THEN None
       ELSE LET i == SetMin(starts)
                j == SetMin({k \in (i + 2)..Len(s) : s[k] = close})
            IN SubSeq(s, i + 1, j - 1)

\* lines 11-22: the content of the first Japanese quotation pair, if longer than 2 bytes
JapaneseQuotes(s) ==
    LET quoted_title == CaptureBetween(s, LeftCorner, RightCorner)
        extracted == Trim(quoted_title)
    IN IF quoted_title # None /\ extracted # <<>> /\ ByteLen(extracted) > 2
       THEN extracted
       ELSE None

\* lines 32-42 and 63-73: Regex [separators]+.*$ replaced by "", then trim,
\* kept if longer than 1 byte; the hyphen is the separator of the alphabets
SeparatorTailRemoved(extracted) ==
    LET dashes == {i \in 1..Len(extracted) : extracted[i] = Dash}
        cleaned_extracted ==
            IF dashes = {} THEN Trim(extracted)
            ELSE Trim(SubSeq(extracted, 1, SetMin(dashes) - 1))
    IN KeepIfLonger(extracted, cleaned_extracted, 1)

\* lines 24-48: Regex open[^close]*close([^open close]+)open[^close]*close,
\* leftmost match; the middle content if longer than 1 byte, without its
\* separator tail
NestedBrackets(s) ==
    LET FirstClose(i) == SetMin({j \in (i + 1)..Len(s) : s[j] = RightLenticular})
        NextBracket(j) ==
            SetMin({k \in (j + 1)..Len(s) : s[k] \in {LeftLenticular, RightLenticular}})
        starts == {i \in 1..Len(s) :
                      /\ s[i] = LeftLenticular
                      /\ \E j \in (i + 1)..Len(s) : s[j] = RightLenticular
                      /\ LET j == FirstClose(i)
                         IN /\ \E k \in (j + 1)..Len(s) :
                                  s[k] \in {LeftLenticular, RightLenticular}
                            /\ LET k == NextBracket(j)
                               IN /\ k > j + 1
                                  /\ s[k] = LeftLenticular
                                  /\ \E l \in (k + 1)..Len(s) : s[l] = RightLenticular}
    IN IF starts = {} THEN None
       ELSE LET j == FirstClose(SetMin(starts))
                extracted == Trim(SubSeq(s, j + 1, NextBracket(j) - 1))
            IN IF extracted # <<>> /\ ByteLen(extracted) > 1
               THEN SeparatorTailRemoved(extracted)
               ELSE None

\* lines 50-79: the content of the first bracket pair, if longer than 2 bytes,
\* without its separator tail (no string of the alphabets spells cover, mv,
\* video or official)
SingleBracket(s) ==
    LET bracketed_title == CaptureBetween(s, LeftLenticular, RightLenticular)
        extracted == Trim(bracketed_title)
    IN IF bracketed_title # None /\ extracted # <<>> /\ ByteLen(extracted) > 2
       THEN SeparatorTailRemoved(extracted)
       ELSE None

\* lines 81-92: the content of the first corner-bracket pair, if longer than 2 bytes
CornerBrackets(s) ==
    LET bracketed_title == CaptureBetween(s, LeftWhiteCorner, RightWhiteCorner)
        extracted == Trim(bracketed_title)
    IN IF bracketed_title # None /\ extracted # <<>> /\ ByteLen(extracted) > 2
       THEN extracted
       ELSE None

\* lines 9-92: the early returns, in the order of the code; None when the
\* function goes on to line 94
HighConfidence(s) ==
    IF JapaneseQuotes(s) # None THEN JapaneseQuotes(s)
    ELSE IF NestedBrackets(s) # None THEN NestedBrackets(s)
    ELSE IF SingleBracket(s) # None THEN SingleBracket(s)
    ELSE CornerBrackets(s)

\* lines 243-257: Regex ^([^-]+)-([^open]+)open.*?close on the original
\* title; group 2 replaces the title if longer than 2 bytes
ArtistTrackBracket(cleaned, original_cleaned) ==
    LET o == original_cleaned
        dashes == {i \in 1..Len(o) : o[i] = Dash}
        d == SetMin(dashes)
        opens == {k \in (d + 1)..Len(o) : o[k] = LeftLenticular}
        k == SetMin(opens)
        track_candidate == Trim(SubSeq(o, d + 1, k - 1))
    IN IF /\ dashes # {}
          /\ d > 1
          /\ opens # {}
          /\ k > d + 1
          /\ \E l \in (k + 1)..Len(o) : o[l] = RightLenticular
          /\ track_candidate # <<>>
          /\ ByteLen(track_candidate) > 2
       THEN track_candidate
       ELSE cleaned

\* line 268: Regex open.*?close replaced by "", every match
RECURSIVE RemoveBrackets(_)
RemoveBrackets(s) ==
    IF s = <<>> THEN <<>>
    ELSE IF s[1] = LeftLenticular /\ \E j \in 2..Len(s) : s[j] = RightLenticular
         THEN RemoveBrackets(SubSeq(s, SetMin({j \in 2..Len(s) : s[j] = RightLenticular}) + 1,
                                    Len(s)))
         ELSE <<s[1]>> \o RemoveBrackets(Tail(s))

\* line 97: Regex (?i)\s*-\s*YouTube\s*$ replaced by "", then trim. The
\* pattern matches when the last non-blank unit is YouTube and the last
\* non-blank character before it is a dash.
YouTubeSuffixRemoved(cleaned) ==
    LET t == Trim(cleaned)
        before == IF t = <<>> THEN <<>> ELSE Trim(SubSeq(t, 1, Len(t) - 1))
    IN IF t # <<>> /\ t[Len(t)] = YouTube /\ before # <<>> /\ before[Len(before)] = Dash
       THEN Trim(SubSeq(before, 1, Len(before) - 1))
       ELSE t

\* lines 95-161: every cleanup pattern, applied in order under the length guard
\* (line 96, line 97, lines 99-150)
CleanupPatterns(cleaned) ==
    LET a == KeepIfLonger(cleaned, Trim(cleaned), 1)
        b == KeepIfLonger(a, YouTubeSuffixRemoved(a), 1)
    IN KeepIfLonger(b, Trim(b), 1)

\* lines 198-239: Regex ^([^-]+)\s*[-]\s*(.+)$ on the first dash; the track
\* part replaces the title under the conditions of lines 216-222
SeparatorPatterns(cleaned) ==
    LET dashes == {i \in 1..Len(cleaned) : cleaned[i] = Dash}
    IN IF dashes = {} THEN cleaned
       ELSE LET d == SetMin(dashes)
                artist_candidate == Trim(SubSeq(cleaned, 1, d - 1))
                track_name_candidate == Trim(SubSeq(cleaned, d + 1, Len(cleaned)))
            IN IF /\ d > 1
                  /\ d < Len(cleaned)
                  /\ track_name_candidate # <<>>
                  /\ artist_candidate # <<>>
                  /\ ByteLen(artist_candidate) < ByteLen(track_name_candidate) * 3
                  /\ ~Contains(track_name_candidate, <<YouTube>>)
                  /\ track_name_candidate # artist_candidate
               THEN track_name_candidate
               ELSE cleaned

\* lines 260-273: full-width video parentheses and remaining Japanese brackets
RemainingBrackets(cleaned) ==
    LET a == KeepIfLonger(cleaned, Trim(cleaned), 1)
    IN KeepIfLonger(a, Trim(RemoveBrackets(a)), 1)

\* lines 288-296, 363-365: if cleaned.starts_with(open) && cleaned.ends_with(close)
\* && cleaned.len() > 2 { cleaned = cleaned[1..cleaned.len() - 1] }
StripSurrounding(cleaned, open, close) ==
    IF StartsWith(cleaned, open) /\ EndsWith(cleaned, close) /\ ByteLen(cleaned) > 2
    THEN ByteSlice(cleaned, 1, ByteLen(cleaned) - 1)
    ELSE cleaned

RECURSIVE CollapseRuns(_)
CollapseRuns(s) ==
    IF Len(s) < 2 THEN (IF s # <<>> /\ IsWhitespace(s[1]) THEN <<" ">> ELSE s)
    ELSE IF IsWhitespace(s[1]) /\ IsWhitespace(s[2])
         THEN CollapseRuns(Tail(s))
         ELSE <<(IF IsWhitespace(s[1]) THEN " " ELSE s[1])>> \o CollapseRuns(Tail(s))

\* lines 304-307: Regex \s+ replaced by one space, then trim
CollapseWhitespace(cleaned) == Trim(CollapseRuns(cleaned))

\* lines 338-360: subtitle indicators, (official) marker, trailing square bracket
SubtitleAndTrailingBracket(cleaned) ==
    LET a == KeepIfLonger(cleaned, Trim(cleaned), 1)
        b == KeepIfLonger(a, Trim(a), 1)
    IN KeepIfLonger(b, Trim(b), 1)

\* lines 369-384: the second piece of a split on " - ", unless it starts
\* with youtube
DashSplit(cleaned) ==
    IF Contains(cleaned, SpacedDash)
    THEN LET track_part == Trim(Split(cleaned, SpacedDash)[2])
         IN IF track_part # <<>> /\ track_part[1] # YouTube
            THEN track_part
            ELSE cleaned
    ELSE cleaned

\* lines 398-428: the ft. patterns and the trailing Official Video
FeaturingTail(cleaned) ==
    LET a == KeepIfLonger(cleaned, Trim(cleaned), 1)
        b == KeepIfLonger(a, Trim(a), 1)
    IN KeepIfLonger(b, Trim(b), 1)

\* lines 430-444: three or more pieces around " - ": the first piece, if it
\* has between 3 and 49 bytes
MultiDash(cleaned) ==
    LET parts == Split(cleaned, SpacedDash)
        first_part == Trim(parts[1])
    IN IF Len(parts) > 2 /\ first_part # <<>>
          /\ ByteLen(first_part) > 2 /\ ByteLen(first_part) < 50
       THEN first_part
       ELSE cleaned

\* lines 446-452: Regex \s+ft\.([^\s]+)$
JapaneseFt(cleaned) == KeepIfLonger(cleaned, Trim(cleaned), 1)

\* lines 515-524: a title no step changed and that splits in two on " - "
\* becomes its second piece
LastDashSplit(cleaned, original_cleaned) ==
    LET parts == Split(cleaned, SpacedDash)
    IN IF cleaned = original_cleaned /\ Len(parts) = 2 /\ Trim(parts[2]) # <<>>
       THEN Trim(parts[2])
       ELSE cleaned

\* lines 454-468: Regex ^'([^']+)'(.*)$
SingleQuotedTitle(cleaned) ==
    IF /\ StartsWith(cleaned, "'")
       /\ Len(cleaned) >= 3
       /\ cleaned[2] # "'"
       /\ \E j \in 3..Len(cleaned) : cleaned[j] = "'"
    THEN LET j == SetMin({k \in 3..Len(cleaned) : cleaned[k] = "'"})
             quoted_title == Trim(SubSeq(cleaned, 2, j - 1))
             after_quote == Trim(SubSeq(cleaned, j + 1, Len(cleaned)))
         IN IF quoted_title # <<>> /\ ByteLen(quoted_title) > 2 /\ after_quote = <<>>
            THEN quoted_title
            ELSE cleaned
    ELSE cleaned

\* lines 470-492: Chinese cover parenthetical, full-width parentheses, trailing cover
FinalRemovals(cleaned) ==
    LET a == KeepIfLonger(cleaned, Trim(cleaned), 1)
        b == KeepIfLonger(a, Trim(a), 3)
    IN KeepIfLonger(b, Trim(b), 1)

\* lines 287-296: quotes around the entire string, in the order ", ', Japanese
StripQuotes(cleaned) ==
    LET a == StripSurrounding(cleaned, "\"", "\"")
        b == IF a = Panic THEN Panic ELSE StripSurrounding(a, "'", "'")
    IN IF b = Panic THEN Panic ELSE StripSurrounding(b, LeftCorner, RightCorner)

\* lines 304-547, on the string lines 287-296 left
AfterQuotes(cleaned, original_cleaned) ==
    LET a == SubtitleAndTrailingBracket(CollapseWhitespace(cleaned))
        b == StripSurrounding(a, "\"", "\"")
    IN IF b = Panic THEN Panic
       ELSE LET c == JapaneseFt(MultiDash(FeaturingTail(DashSplit(b))))
            IN LastDashSplit(FinalRemovals(SingleQuotedTitle(c)), original_cleaned)

\* clean_track_name(track_name: &str) -> String, or Panic
clean_track_name(s) ==
    IF HighConfidence(s) # None THEN HighConfidence(s)
    ELSE LET separated == ArtistTrackBracket(SeparatorPatterns(CleanupPatterns(s)), s)
             stripped == StripQuotes(RemainingBrackets(separated))
         IN IF stripped = Panic THEN Panic ELSE AfterQuotes(stripped, s)

\* s without its trailing whitespace
TrimEnd(s) ==
    LET keep == {i \in 1..Len(s) : ~IsWhitespace(s[i])}
    IN IF keep = {} THEN <<>> ELSE SubSeq(s, 1, SetMax(keep))

\* The characters the tracks handed to remove_artist_from_track are drawn
\* from: the space, an ASCII letter in both cases, the hyphen and a
\* three-byte letter.
TrackChars == {" ", "a", "A", Dash, Hiragana}

\* the case folding of a (?i) pattern
Fold(s) == [i \in DOMAIN s |-> IF s[i] = "A" THEN "a" ELSE s[i]]

\* line 558: Regex (?i)^artist\s*[-]\s* replaced by "", then trim
LeadingArtistRemoved(current, artist) ==
    LET after == SubSeq(current, Len(artist) + 1, Len(current))
        rest == Trim(after)
    IN IF /\ Len(current) >= Len(artist)
          /\ Fold(SubSeq(current, 1, Len(artist))) = Fold(artist)
          /\ rest # <<>>
          /\ rest[1] = Dash
       THEN Trim(Tail(rest))
       ELSE Trim(current)

\* lines 559 and 561: Regex (?i)\s*[-]\s*artist$ (trailing_space FALSE) and
\* (?i)\s*[-]\s*artist\s*$ (trailing_space TRUE) replaced by "", then trim
TrailingArtistRemoved(current, artist, trailing_space) ==
    LET ends == {e \in Len(artist)..Len(current) :
                    /\ Fold(SubSeq(current, e - Len(artist) + 1, e)) = Fold(artist)
                    /\ \A k \in (e + 1)..Len(current) : IsWhitespace(current[k])
                    /\ trailing_space \/ e = Len(current)
                    /\ LET before == TrimEnd(SubSeq(current, 1, e - Len(artist)))
                       IN before # <<>> /\ before[Len(before)] = Dash}
    IN IF ends = {} THEN Trim(current)
       ELSE LET e == SetMax(ends)
                before == TrimEnd(SubSeq(current, 1, e - Len(artist)))
            IN Trim(SubSeq(before, 1, Len(before) - 1))

\* remove_artist_from_track with the guard of line 568 left out
ReplaceAlways(current, new_result) == new_result

\* lines 567-574: if new_result.len() < result.len() && !new_result.is_empty()
\* { result = new_result }
ReplaceIfShorter(current, new_result) ==
    IF ByteLen(new_result) < ByteLen(current) /\ new_result # <<>>
    THEN new_result
    ELSE current

\* remove_artist_from_track(track_name, artist_name) -> String
remove_artist_from_track(track, artist) ==
    IF IsBlank(artist) THEN track
    ELSE LET a == ReplaceIfShorter(track, LeadingArtistRemoved(track, artist))
             b == ReplaceIfShorter(a, TrailingArtistRemoved(a, artist, FALSE))
         IN ReplaceIfShorter(b, TrailingArtistRemoved(b, artist, TRUE))

(***************************************************************************)
(* lyrics.rs: fetch_lyrics, candidate generation                           *)
(***************************************************************************)

\* LyricsCandidate { priority, url, description }: the url is kept as the
\* query shape and the strings encoded into it (artist is None when the url
\* carries the title alone).
Candidate(priority, description, shape, title, artist) ==
    [priority |-> priority, description |-> description, shape |-> shape,
     title |-> title, artist |-> artist]

\* CandidatePriority with the exact query given the priority of a wildcard one
CandidatePriorityDuplicated(description) ==
    CASE description = "wildcard: title artist" -> 10
      [] description = "wildcard: title" -> 9
      [] description = "wildcard cleaned: title artist" -> 8
      [] description = "wildcard cleaned: title" -> 7
      [] description = "exact" -> 7
      [] description = "exact without artist" -> 5
      [] description = "exact cleaned" -> 4
      [] description = "exact cleaned without artist" -> 3

\* the priority literal of each candidate, by its description prefix
CandidatePriority(description) ==
    CASE description = "wildcard: title artist" -> 10
      [] description = "wildcard: title" -> 9
      [] description = "wildcard cleaned: title artist" -> 8
      [] description = "wildcard cleaned: title" -> 7
      [] description = "exact" -> 6
      [] description = "exact without artist" -> 5
      [] description = "exact cleaned" -> 4
      [] description = "exact cleaned without artist" -> 3

\* PushIf with the blank check left out
PushAlways(cands, cond, candidate) == Append(cands, candidate)

\* if cond { candidates.push(candidate) }
PushIf(cands, cond, candidate) == IF cond THEN Append(cands, candidate) ELSE cands

\* fetch_lyrics lines 102-104: one of the two clean_track_name calls panics
CleaningPanics(track, artist) ==
    \/ clean_track_name(track) = Panic
    \/ clean_track_name(remove_artist_from_track(track, artist)) = Panic

\* fetch_lyrics lines 106-217: the candidates in push order, from the title,
\* the artist and the three strings lines 102-104 derive from them
PushCandidates(track, artist, cleaned_track, track_without_artist, cleaned_track_without_artist) ==
    LET Make(description, shape, t, a) ==
            Candidate(CandidatePriority(description), description, shape, t, a)
        k1 == PushIf(<<>>, ~IsBlank(track) /\ ~IsBlank(artist),
                     Make("wildcard: title artist", "wildcard", track, artist))
        k2 == PushIf(k1, ~IsBlank(track),
                     Make("wildcard: title", "wildcard", track, None))
        k3 == PushIf(k2, ~IsBlank(cleaned_track) /\ ~IsBlank(artist),
                     Make("wildcard cleaned: title artist", "wildcard", cleaned_track, artist))
        k4 == PushIf(k3, ~IsBlank(cleaned_track),
                     Make("wildcard cleaned: title", "wildcard", cleaned_track, None))
        k5 == PushIf(k4, ~IsBlank(track) /\ ~IsBlank(artist),
                     Make("exact", "exact", track, artist))
        k6 == PushIf(k5, ~IsBlank(track_without_artist) /\ ~IsBlank(artist),
                     Make("exact without artist", "exact", track_without_artist, artist))
        k7 == PushIf(k6, ~IsBlank(cleaned_track) /\ ~IsBlank(artist),
                     Make("exact cleaned", "exact", cleaned_track, artist))
    IN PushIf(k7, ~IsBlank(cleaned_track_without_artist) /\ ~IsBlank(artist),
              Make("exact cleaned without artist", "exact",
                   cleaned_track_without_artist, artist))

\* fetch_lyrics lines 102-217: the candidates in push order (when neither
\* clean_track_name call panics)
BuildCandidates(track, artist) ==
    PushCandidates(track, artist,
                   clean_track_name(track),
                   remove_artist_from_track(track, artist),
                   clean_track_name(remove_artist_from_track(track, artist)))

(***************************************************************************)
(* lyrics.rs: parse_lrc_format, convert_plain_lyrics_to_lines              *)
(*                                                                         *)
(* The f64 times and durations are kept in hundredths of a second, the     *)
(* resolution of the [mm:ss.cc] tag: the sums, comparisons and differences *)
(* of the code are then integer ones.                                      *)
(***************************************************************************)
\* centiseconds / 100.0
CentisPerSecond == 100
\* last.duration = Some(3.0)
LastLineSeconds == 3
\* time: (index as f64) * 5.0, duration: Some(5.0)
PlainLineSeconds == 5

Newline == "\n"
Digits == <<"0", "1", "2", "3", "4", "5", "6", "7", "8", "9">>
IsDigit(c) == \E i \in DOMAIN Digits : Digits[i] = c

\* str::parse::<f64> of a digit
DigitValue(c) == (CHOOSE i \in DOMAIN Digits : Digits[i] = c) - 1

\* str::parse::<f64> of a \d{2} capture
ParseTwoDigits(s) == DigitValue(s[1]) * 10 + DigitValue(s[2])

\* str::lines: the pieces between line feeds; a final line feed starts no
\* further line
RECURSIVE Lines(_)
Lines(s) ==
    LET feeds == {i \in 1..Len(s) : s[i] = Newline}
    IN IF s = <<>> THEN <<>>
       ELSE IF feeds = {} THEN <<s>>
       ELSE LET i == SetMin(feeds)
            IN <<SubSeq(s, 1, i - 1)>> \o Lines(SubSeq(s, i + 1, Len(s)))

\* Regex ^\[(\d{2}):(\d{2})(?:\.(\d{2}))?\](.*)$ on one line: the captures,
\* or matched = FALSE
LrcCaptures(line) ==
    LET head == /\ Len(line) >= 7
                /\ line[1] = "["
                /\ IsDigit(line[2]) /\ IsDigit(line[3])
                /\ line[4] = ":"
                /\ IsDigit(line[5]) /\ IsDigit(line[6])
        with_centis == /\ head
                       /\ Len(line) >= 10
                       /\ line[7] = "."
                       /\ IsDigit(line[8]) /\ IsDigit(line[9])
                       /\ line[10] = "]"
        without_centis == head /\ line[7] = "]"
    IN IF with_centis
       THEN [matched |-> TRUE,
             minutes |-> ParseTwoDigits(SubSeq(line, 2, 3)),
             seconds |-> ParseTwoDigits(SubSeq(line, 5, 6)),
             centiseconds |-> ParseTwoDigits(SubSeq(line, 8, 9)),
             text |-> SubSeq(line, 11, Len(line))]
       ELSE IF without_centis
       THEN [matched |-> TRUE,
             minutes |-> ParseTwoDigits(SubSeq(line, 2, 3)),
             seconds |-> ParseTwoDigits(SubSeq(line, 5, 6)),
             centiseconds |-> 0,
             text |-> SubSeq(line, 8, Len(line))]
       ELSE [matched |-> FALSE]

\* LyricLine { time, text, duration }
LyricLine(time, text, duration) == [time |-> time, text |-> text, duration |-> duration]

\* KeepsText accepting the empty text
KeepsAnyText(text) == TRUE

\* if !text.is_empty()
KeepsText(text) == text # <<>>

\* lines 411-435: the LyricLine of every matching line with non-empty text,
\* in input order, duration not yet set
RECURSIVE CollectLrc(_)
CollectLrc(lines) ==
    IF lines = <<>> THEN <<>>
    ELSE LET caps == LrcCaptures(Head(lines))
             text == Trim(caps.text)
             time_in_seconds == (caps.minutes * 60 + caps.seconds) * CentisPerSecond
                                  + caps.centiseconds
         IN (IF caps.matched /\ KeepsText(text)
             THEN <<LyricLine(time_in_seconds, text, None)>>
             ELSE <<>>) \o CollectLrc(Tail(lines))

\* SortByTime leaving the lines in input order
InputOrder(lyrics) == lyrics

\* lyrics.sort_by(|a, b| a.time.partial_cmp(&b.time).unwrap()): a stable sort
RECURSIVE SortByTime(_)
SortByTime(lyrics) ==
    IF lyrics = <<>> THEN <<>>
    ELSE LET rest == SortByTime(Tail(lyrics))
             l == Head(lyrics)
             before == {i \in 1..Len(rest) : rest[i].time < l.time}
             k == IF before = {} THEN 0 ELSE SetMax(before)
         IN SubSeq(rest, 1, k) \o <<l>> \o SubSeq(rest, k + 1, Len(rest))

\* lines 440-447: each duration is the gap to the next line, the last is 3.0
SetDurations(lyrics) ==
    [i \in DOMAIN lyrics |->
        LyricLine(lyrics[i].time, lyrics[i].text,
                  IF i < Len(lyrics)
                  THEN lyrics[i + 1].time - lyrics[i].time
                  ELSE LastLineSeconds * CentisPerSecond)]

\* parse_lrc_format(lrc_content: &str) -> Vec<LyricLine>
parse_lrc_format(lrc_content) == SetDurations(SortByTime(CollectLrc(Lines(lrc_content))))

\* lines 457-466: the lines from position index on (index counts every input line)
RECURSIVE PlainFrom(_, _)
PlainFrom(lines, index) ==
    IF lines = <<>> THEN <<>>
    ELSE LET text == Trim(Head(lines))
         IN (IF text # <<>>
             THEN <<LyricLine(index * PlainLineSeconds * CentisPerSecond, text,
                              PlainLineSeconds * CentisPerSecond)>>
             ELSE <<>>) \o PlainFrom(Tail(lines), index + 1)

\* convert_plain_lyrics_to_lines(plain_lyrics: &str) -> Vec<LyricLine>
convert_plain_lyrics_to_lines(plain_lyrics) == PlainFrom(Lines(plain_lyrics), 0)

(***************************************************************************)
(* lyrics.rs: fetch_lyrics_from_url, from the parsed response to the lyrics *)
(*                                                                         *)
(* A record is kept as its two lyrics fields; a field is a string, or None *)
(* when as_str() gives None (the field is absent, null or not a string).   *)
(***************************************************************************)
Record(synced, plain) == [syncedLyrics |-> synced, plainLyrics |-> plain]

\* v.as_str().is_some() && !v.as_str().unwrap().trim().is_empty()
HasText(v) == v # None /\ ~IsBlank(v)

\* SelectRecord taking the first record whatever it holds
SelectFirst(records) == records[1]

\* lines 42-51: find(synced non-blank).or_else(find(plain non-blank)).or(first),
\* on a non-empty list
SelectRecord(records) ==
    LET synced == {i \in DOMAIN records : HasText(records[i].syncedLyrics)}
        plain == {i \in DOMAIN records : HasText(records[i].plainLyrics)}
    IN IF synced # {} THEN records[SetMin(synced)]
       ELSE IF plain # {} THEN records[SetMin(plain)]
       ELSE records[1]

\* lines 64-70 and 74-80: the plain branch
DecodePlain(plain_lyrics) ==
    IF HasText(plain_lyrics) THEN convert_plain_lyrics_to_lines(plain_lyrics) ELSE <<>>

\* DecodeRecord falling back to the plain lyrics when the synced text
\* decodes to no line
DecodeWithFallback(data) ==
    IF HasText(data.syncedLyrics) /\ parse_lrc_format(data.syncedLyrics) # <<>>
    THEN parse_lrc_format(data.syncedLyrics)
    ELSE DecodePlain(data.plainLyrics)

\* lines 53-83: the decoder applied to the selected record
DecodeRecord(data) ==
    IF data.syncedLyrics # None
    THEN IF ~IsBlank(data.syncedLyrics)
         THEN parse_lrc_format(data.syncedLyrics)
         ELSE DecodePlain(data.plainLyrics)
    ELSE DecodePlain(data.plainLyrics)

\* lines 35-85: the selected record (None for an empty list) and the lyrics
ResponseLyrics(records) ==
    IF records = <<>>
    THEN [track_data |-> None, lyrics |-> <<>>]
    ELSE LET data == SelectRecord(records)
         IN [track_data |-> data, lyrics |-> DecodeRecord(data)]

(***************************************************************************)
(* types.rs, websocket_commands.rs: the managed state before any command   *)
(***************************************************************************)
\* Option::None of WebSocketState; a stored server is its index in servers
NoServer == 0
\* Option::None of TrackState
NoTrack == [some |-> FALSE]

\* WebSocketState and TrackState as lib.rs manages them: both None
SocketIdle ==
    /\ ws_state = NoServer
    /\ servers = <<>>
    /\ init_results = <<>>
    /\ connections = <<>>
    /\ clients = {}
    /\ track_tasks = <<>>
    /\ processed = <<>>
    /\ current_track = NoTrack
    /\ events = <<>>

\* Result<_, String>
Ok(value) == [ok |-> TRUE, value |-> value]
Err(error) == [ok |-> FALSE, error |-> error]
NoResult == [ok |-> FALSE, error |-> "<not returned>"]
NoBest == [some |-> FALSE]

(***************************************************************************)
(* lyrics.rs: search_strict_priority                                       *)
(***************************************************************************)

\* candidates.sort_by_key(|c| Reverse(c.priority)): a stable sort
RECURSIVE SortByPriority(_)
SortByPriority(cands) ==
    IF cands = <<>> THEN <<>>
    ELSE LET rest == SortByPriority(Tail(cands))
             c == Head(cands)
             before == {i \in 1..Len(rest) : rest[i].priority > c.priority}
             k == IF before = {} THEN 0 ELSE SetMax(before)
         IN SubSeq(rest, 1, k) \o <<c>> \o SubSeq(rest, k + 1, Len(rest))

\* candidates.first().map(|c| c.priority).unwrap_or(0)
TopPriority(cands) == IF cands = <<>> THEN 0 ELSE cands[1].priority

\* the lines the response to a candidate decodes to: line k is tagged with
\* the candidate it came from
LyricsOf(candidate, n) == [k \in 1..n |-> <<candidate.priority, k>>]

\* NonEmpty accepting every result
NonEmptyAlways(lyrics) == TRUE

\* is_non_empty, the closure fetch_lyrics passes (line 227)
NonEmpty(lyrics) == lyrics # <<>>

\* Supersedes without the priority comparison
SupersedesAlways(b, bp, priority) == TRUE

\* Supersedes with the comparison reversed
SupersedesLower(b, bp, priority) == ~b.some \/ priority < bp

\* line 278: best.is_none() || candidate.priority > best_priority
Supersedes(b, bp, priority) == ~b.some \/ priority > bp

\* IsTopPriority never recognising the top priority
NeverTopPriority(bp, tp) == FALSE

\* line 283: best_priority == top_priority
IsTopPriority(bp, tp) == bp = tp

\* CancelLower cancelling every task but the new best
CancelOthers(tokens, cands, bp) ==
    [i \in DOMAIN tokens |-> tokens[i] \/ cands[i].priority # bp]

\* lines 288-292: cancel the token of every task of lower priority
CancelLower(tokens, cands, bp) ==
    [i \in DOMAIN tokens |-> tokens[i] \/ cands[i].priority < bp]

\* line 310: cancel_all.cancel() cancels every child token
CancelChildren(tokens) == [i \in DOMAIN tokens |-> TRUE]

\* AbortAll leaving the running tasks alone
AbortNone(tasks) == tasks

\* line 311: set.abort_all()
AbortAll(tasks) ==
    [i \in DOMAIN tasks |->
        IF tasks[i].status = "running"
        THEN [tasks[i] EXCEPT !.status = "aborted"]
        ELSE tasks[i]]

\* MatchResult treating every timeout as a failure
MatchResultNoPartial(elapsed, b) ==
    IF elapsed
    THEN Err("Overall timeout with no results")
    ELSE IF b.some
         THEN Ok([winner |-> b.candidate, lyrics |-> b.lyrics])
         ELSE Err("All candidates returned empty")

\* lines 313-318: match (result, best)
MatchResult(elapsed, b) ==
    IF b.some
    THEN Ok([winner |-> b.candidate, lyrics |-> b.lyrics])
    ELSE IF elapsed
         THEN Err("Overall timeout with no results")
         ELSE Err("All candidates returned empty")

\* MapSearchResult handing the inner error through unchanged
MapSearchResultRaw(r) ==
    IF r.ok THEN Ok(r.value.lyrics) ELSE Err(<<r.error>>)

\* fetch_lyrics lines 229-236
MapSearchResult(r) ==
    IF r.ok THEN Ok(r.value.lyrics) ELSE Err(<<"No lyrics found: ", r.error>>)

\* the ways req_fut ends in Err through the ? operator (lines 24-31)
RequestErrors == {"http_error", "malformed_payload", "request_timeout"}

(***************************************************************************)
(* One call of fetch_lyrics                                                *)
(*                                                                         *)
(* A candidate task's completion and its delivery by set.join_next() are   *)
(* one step: the JoinSet delivers results in completion order, and the     *)
(* loop of lines 271-305 reads nothing else between the two.  A task that  *)
(* completes after the loop has ended is never read, which is the same to  *)
(* the call as a task aborted while running.                               *)
(***************************************************************************)

\* the (track_name, artist_name) pairs the call is run on: every candidate
\* generated; blank artist; blank title; a title that cleans to nothing; a
\* title on which clean_track_name panics
FetchInputs ==
    { <<(<<"a">>), (<<"a">>)>>,
      <<(<<"a">>), (<<>>)>>,
      <<(<<" ">>), (<<"a">>)>>,
      <<(<<"\"", " ", "\"">>), (<<"a">>)>>,
      <<(<<LeftCorner, RightCorner>>), (<<"a">>)>> }

Idle ==
    /\ SocketIdle
    /\ lyrics_text = <<>>
    /\ json = <<>>
    /\ candidates = <<>>
    /\ top_priority = 0
    /\ task = <<>>
    /\ token = <<>>
    /\ cancel_all = FALSE
    /\ best = NoBest
    /\ best_priority = 0
    /\ timed_out = FALSE
    /\ search_result = NoResult
    /\ result = NoResult
    /\ fn_out = None

Init ==
    /\ pc = "start"
    /\ \E input \in FetchInputs :
          /\ track_name = input[1]
          /\ artist_name = input[2]
    /\ Idle

\* fetch_lyrics lines 100-221: build the candidates; return early without any
FetchStart ==
    /\ pc = "start"
    /\ IF CleaningPanics(track_name, artist_name)
       THEN /\ pc' = "panicked"
            /\ UNCHANGED <<candidates, result>>
       ELSE LET built == BuildCandidates(track_name, artist_name)
            IN /\ candidates' = built
               /\ IF built = <<>>
                  THEN /\ result' = Err(<<"No valid search candidates">>)
                       /\ pc' = "returned"
                  ELSE /\ pc' = "dispatch"
                       /\ UNCHANGED result
    /\ UNCHANGED <<track_name, artist_name, lyrics_text, json, socket_vars, top_priority, task, token, cancel_all,
                   best, best_priority, timed_out, search_result, fn_out>>

\* search_strict_priority lines 249-268: sort, build the client, spawn one
\* task per candidate with a child token
Dispatch ==
    /\ pc = "dispatch"
    /\ candidates' = SortByPriority(candidates)
    /\ top_priority' = TopPriority(candidates')
    /\ \E client_built \in BOOLEAN :
          IF client_built
          THEN /\ task' = [i \in 1..Len(candidates) |-> [status |-> "running", lyrics |-> <<>>]]
               /\ token' = [i \in 1..Len(candidates) |-> FALSE]
               /\ pc' = "waiting"
               /\ UNCHANGED search_result
          ELSE /\ search_result' = Err("client build error")
               /\ pc' = "mapping"
               /\ UNCHANGED <<task, token>>
    /\ UNCHANGED <<track_name, artist_name, lyrics_text, json, socket_vars, cancel_all, best, best_priority,
                   timed_out, result, fn_out>>

\* lines 273-295: join_next yields Ok(Ok((candidate, lyrics)))
TaskReturnsLyrics(i) ==
    /\ pc = "waiting"
    /\ task[i].status = "running"
    /\ \E n \in 0..MaxLines :
          LET candidate == candidates[i]
              lyrics == LyricsOf(candidate, n)
          IN /\ task' = [task EXCEPT ![i] = [status |-> "returned", lyrics |-> lyrics]]
             /\ IF NonEmpty(lyrics) /\ Supersedes(best, best_priority, candidate.priority)
                THEN /\ best_priority' = candidate.priority
                     /\ best' = [some |-> TRUE, candidate |-> candidate, lyrics |-> lyrics]
                     /\ IF IsTopPriority(best_priority', top_priority)
                        THEN /\ pc' = "cleanup"
                             /\ UNCHANGED token
                        ELSE /\ token' = CancelLower(token, candidates, best_priority')
                             /\ UNCHANGED pc
                ELSE UNCHANGED <<best, best_priority, token, pc>>
    /\ UNCHANGED <<track_name, artist_name, lyrics_text, json, socket_vars, candidates, top_priority, cancel_all,
                   timed_out, search_result, result, fn_out>>

\* lines 296-299: join_next yields Ok(Err(_e)): the request failed (lines
\* 24-31) or the task's token was cancelled (line 89).  The arm drops _e, so
\* the task is left as failed whatever the error was.
TaskFails(i) ==
    /\ pc = "waiting"
    /\ task[i].status = "running"
    /\ \E e \in RequestErrors \cup {"cancelled"} :
          /\ e = "cancelled" => token[i]
          /\ task' = [task EXCEPT ![i] = [status |-> "failed", lyrics |-> <<>>]]
    /\ UNCHANGED <<pc, track_name, artist_name, lyrics_text, json, socket_vars, candidates, top_priority, token,
                   cancel_all, best, best_priority, timed_out, search_result,
                   result, fn_out>>

\* lines 300-303: join_next yields Err(JoinError), the task panicked; this
\* arm drops the error as well
TaskJoinError(i) ==
    /\ pc = "waiting"
    /\ task[i].status = "running"
    /\ task' = [task EXCEPT ![i] = [status |-> "failed", lyrics |-> <<>>]]
    /\ UNCHANGED <<pc, track_name, artist_name, lyrics_text, json, socket_vars, candidates, top_priority, token,
                   cancel_all, best, best_priority, timed_out, search_result,
                   result, fn_out>>

\* JoinNextNone with join_next pending for ever on an empty set
JoinNextPending(tasks) == FALSE

\* JoinSet::join_next yields None when no task is left in the set
JoinNextNone(tasks) == \A i \in DOMAIN tasks : tasks[i].status # "running"

\* line 271: join_next yields None, the set is empty
Exhausted ==
    /\ pc = "waiting"
    /\ JoinNextNone(task)
    /\ pc' = "cleanup"
    /\ UNCHANGED <<track_name, artist_name, lyrics_text, json, socket_vars, candidates, top_priority, task, token,
                   cancel_all, best, best_priority, timed_out, search_result,
                   result, fn_out>>

\* line 270: the overall timeout elapses while join_next is pending
OverallTimeout ==
    /\ pc = "waiting"
    /\ \E i \in DOMAIN task : task[i].status = "running"
    /\ timed_out' = TRUE
    /\ pc' = "cleanup"
    /\ UNCHANGED <<track_name, artist_name, lyrics_text, json, socket_vars, candidates, top_priority, task, token,
                   cancel_all, best, best_priority, search_result, result, fn_out>>

\* lines 309-318: cancel the parent token, abort the set, match (result, best)
Cleanup ==
    /\ pc = "cleanup"
    /\ cancel_all' = TRUE
    /\ token' = CancelChildren(token)
    /\ task' = AbortAll(task)
    /\ search_result' = MatchResult(timed_out, best)
    /\ pc' = "mapping"
    /\ UNCHANGED <<track_name, artist_name, lyrics_text, json, socket_vars, candidates, top_priority, best,
                   best_priority, timed_out, result, fn_out>>

\* fetch_lyrics lines 229-237
FetchReturn ==
    /\ pc = "mapping"
    /\ result' = MapSearchResult(search_result)
    /\ pc' = "returned"
    /\ UNCHANGED <<track_name, artist_name, lyrics_text, json, socket_vars, candidates, top_priority, task, token,
                   cancel_all, best, best_priority, timed_out, search_result, fn_out>>

\* the steps of search_strict_priority and of the return of fetch_lyrics
SearchNext ==
    \/ Dispatch
    \/ \E i \in DOMAIN task : TaskReturnsLyrics(i)
    \/ \E i \in DOMAIN task : TaskFails(i)
    \/ \E i \in DOMAIN task : TaskJoinError(i)
    \/ Exhausted
    \/ OverallTimeout
    \/ Cleanup
    \/ FetchReturn

Next ==
    \/ FetchStart
    \/ SearchNext

Spec == Init /\ [][Next]_vars

\* The runtime keeps polling the search and its tasks: a step of the search
\* that stays possible is eventually taken. A running task can always end (its request
\* carries the per-request timeout, line 27) and the overall timeout (270)
\* can elapse while a task is running. The calls are those with two and with
\* four candidates.
LiveInit ==
    /\ pc = "start"
    /\ \E input \in {i \in FetchInputs : i[1] # <<"a">> \/ i[2] = <<>>} :
          /\ track_name = input[1]
          /\ artist_name = input[2]
    /\ Idle

SpecLive == LiveInit /\ [][Next]_vars /\ WF_vars(SearchNext)

(***************************************************************************)
(* Candidate generation on every bounded (title, artist): fetch_lyrics up  *)
(* to the spawning of the tasks                                            *)
(***************************************************************************)
CandidatesInit ==
    /\ pc = "start"
    /\ track_name \in StrSet(Chars, MaxLen)
    /\ artist_name \in StrSet(ArtistChars, MaxArtistLen)
    /\ Idle

CandidatesNext == FetchStart \/ Dispatch

SpecCandidates == CandidatesInit /\ [][CandidatesNext]_vars

(***************************************************************************)
(* clean_track_name on every bounded title                                 *)
(***************************************************************************)
CleanInit ==
    /\ pc = "clean"
    /\ track_name \in StrSet(Chars, MaxLen)
    /\ artist_name = <<>>
    /\ Idle

CleanApply ==
    /\ pc = "clean"
    /\ fn_out' = clean_track_name(track_name)
    /\ pc' = "cleaned"
    /\ UNCHANGED <<track_name, artist_name, lyrics_text, json, socket_vars, candidates, top_priority, task, token,
                   cancel_all, best, best_priority, timed_out, search_result, result>>

SpecClean == CleanInit /\ [][CleanApply]_vars

(***************************************************************************)
(* clean_track_name on every bounded title with separators and suffixes    *)
(***************************************************************************)
TitleInit ==
    /\ pc = "clean"
    /\ track_name \in StrSet(TitleChars, MaxTitleLen)
    /\ artist_name = <<>>
    /\ Idle

SpecTitle == TitleInit /\ [][CleanApply]_vars

(***************************************************************************)
(* clean_track_name on the titles that carry bracket pairs                 *)
(***************************************************************************)
\* what a bracket pair encloses: non-empty runs of the two letters
BracketContents == StrSet({"a", Hiragana}, MaxContentLen) \ {<<>>}

\* a corner-bracket pair alone, or next to a bracket pair on either side
BracketTitles ==
    {<<LeftWhiteCorner>> \o c \o <<RightWhiteCorner>> : c \in BracketContents}
    \cup {<<LeftLenticular>> \o b \o <<RightLenticular, LeftWhiteCorner>> \o c
              \o <<RightWhiteCorner>> : b \in BracketContents, c \in BracketContents}
    \cup {<<LeftWhiteCorner>> \o c \o <<RightWhiteCorner, LeftLenticular>> \o b
              \o <<RightLenticular>> : b \in BracketContents, c \in BracketContents}

BracketInit ==
    /\ pc = "clean"
    /\ track_name \in BracketTitles
    /\ artist_name = <<>>
    /\ Idle

SpecBrackets == BracketInit /\ [][CleanApply]_vars

(***************************************************************************)
(* clean_track_name on the titles "A - B"                                  *)
(***************************************************************************)
\* the segment before the separator: runs of the two letters
BeforeSegments == StrSet({"a", Hiragana}, MaxBeforeLen)
\* the segment after the separator: runs of the letter and of a platform name
AfterSegments == StrSet({"a", YouTube}, MaxAfterLen)

DashInit ==
    /\ pc = "clean"
    /\ track_name \in {A \o SpacedDash \o B : A \in BeforeSegments, B \in AfterSegments}
    /\ artist_name = <<>>
    /\ Idle

SpecDash == DashInit /\ [][CleanApply]_vars

(***************************************************************************)
(* remove_artist_from_track on every bounded (track, artist)               *)
(***************************************************************************)
RemoveArtistInit ==
    /\ pc = "remove"
    /\ track_name \in StrSet(TrackChars, MaxTitleLen)
    /\ artist_name \in StrSet(ArtistChars, MaxArtistLen)
    /\ Idle

RemoveArtistApply ==
    /\ pc = "remove"
    /\ fn_out' = remove_artist_from_track(track_name, artist_name)
    /\ pc' = "removed"
    /\ UNCHANGED <<track_name, artist_name, lyrics_text, json, socket_vars, candidates, top_priority, task,
                   token, cancel_all, best, best_priority, timed_out, search_result,
                   result>>

SpecRemoveArtist == RemoveArtistInit /\ [][RemoveArtistApply]_vars

(***************************************************************************)
(* The two decoders on every bounded lyrics text                           *)
(***************************************************************************)
\* the tags of the drawn lines, as <<minutes, seconds, centiseconds>>;
\* centiseconds -1 stands for the short form [mm:ss]
LrcTags == {<<0, 0, -1>>, <<0, 1, 50>>, <<1, 0, 0>>, <<1, 0, -1>>}

\* the texts that follow a tag
LrcTexts == {<<>>, <<" ">>, <<"a">>, <<" ", "a">>}

TwoDigits(n) == <<Digits[(n \div 10) + 1], Digits[(n % 10) + 1]>>

\* the line [mm:ss]text or [mm:ss.cc]text
TaggedLine(tag, text) ==
    <<"[">> \o TwoDigits(tag[1]) \o <<":">> \o TwoDigits(tag[2])
        \o (IF tag[3] < 0 THEN <<>> ELSE <<".">> \o TwoDigits(tag[3]))
        \o <<"]">> \o text

\* lines without a tag at their start: empty, blank, plain text, a tag with
\* a one-digit field, a tag after other text
UntaggedLines ==
    {<<>>, <<" ">>, <<"a">>,
     <<"[", "0", ":", "0", "1", "]", "a">>,
     <<"a", "[", "0", "0", ":", "0", "1", "]", "a">>}

TextLines == {TaggedLine(tag, text) : tag \in LrcTags, text \in LrcTexts} \cup UntaggedLines

RECURSIVE JoinLines(_)
JoinLines(lines) ==
    IF lines = <<>> THEN <<>>
    ELSE IF Len(lines) = 1 THEN lines[1]
    ELSE Head(lines) \o <<Newline>> \o JoinLines(Tail(lines))

DecodeInit ==
    /\ pc = "decode"
    /\ track_name = <<>>
    /\ artist_name = <<>>
    /\ \E lines \in StrSet(TextLines, MaxTextLines) : lyrics_text = JoinLines(lines)
    /\ SocketIdle
    /\ json = <<>>
    /\ candidates = <<>>
    /\ top_priority = 0
    /\ task = <<>>
    /\ token = <<>>
    /\ cancel_all = FALSE
    /\ best = NoBest
    /\ best_priority = 0
    /\ timed_out = FALSE
    /\ search_result = NoResult
    /\ result = NoResult
    /\ fn_out = None

\* the synced payload of a record: parse_lrc_format(synced)
ParseLrc ==
    /\ pc = "decode"
    /\ fn_out' = parse_lrc_format(lyrics_text)
    /\ pc' = "parsed"
    /\ UNCHANGED <<track_name, artist_name, lyrics_text, json, socket_vars, candidates, top_priority, task,
                   token, cancel_all, best, best_priority, timed_out, search_result,
                   result>>

\* the plain payload of a record: convert_plain_lyrics_to_lines(plain)
ConvertPlain ==
    /\ pc = "decode"
    /\ fn_out' = convert_plain_lyrics_to_lines(lyrics_text)
    /\ pc' = "converted"
    /\ UNCHANGED <<track_name, artist_name, lyrics_text, json, socket_vars, candidates, top_priority, task,
                   token, cancel_all, best, best_priority, timed_out, search_result,
                   result>>

DecodeNext == ParseLrc \/ ConvertPlain

SpecDecode == DecodeInit /\ [][DecodeNext]_vars

(***************************************************************************)
(* fetch_lyrics_from_url on every bounded response                         *)
(***************************************************************************)
\* the values of a lyrics field: not a string, empty, blank, text without a
\* tag, one tagged line
FieldValues ==
    {None, <<>>, <<" ">>, <<"a">>, TaggedLine(<<0, 1, 50>>, <<"a">>)}

Records == {Record(synced, plain) : synced \in FieldValues, plain \in FieldValues}

ResponseInit ==
    /\ pc = "response"
    /\ track_name = <<>>
    /\ artist_name = <<>>
    /\ lyrics_text = <<>>
    /\ json \in StrSet(Records, MaxRecords)
    /\ SocketIdle
    /\ candidates = <<>>
    /\ top_priority = 0
    /\ task = <<>>
    /\ token = <<>>
    /\ cancel_all = FALSE
    /\ best = NoBest
    /\ best_priority = 0
    /\ timed_out = FALSE
    /\ search_result = NoResult
    /\ result = NoResult
    /\ fn_out = None

\* lines 33-85: from the parsed response to the lyrics of the candidate
DecodeResponse ==
    /\ pc = "response"
    /\ fn_out' = ResponseLyrics(json)
    /\ pc' = "decoded"
    /\ UNCHANGED <<track_name, artist_name, lyrics_text, json, socket_vars, candidates, top_priority,
                   task, token, cancel_all, best, best_priority, timed_out,
                   search_result, result>>

SpecResponse == ResponseInit /\ [][DecodeResponse]_vars

(***************************************************************************)
(* websocket_commands.rs, websocket.rs, commands.rs: the extension         *)
(* connection                                                              *)
(*                                                                         *)
(* A tokio Mutex serialises the blocks that hold it; a block that holds a  *)
(* lock and does not await inside is one action. The tasks tokio::spawn    *)
(* creates run in any order.                                               *)
(***************************************************************************)
AlreadyRunning == "WebSocket server already running"
Started == "WebSocket server started on port 8765"

\* IsSome finding no stored server whatever is stored
IsSomeNever(server_guard) == FALSE

\* websocket_commands.rs line 16: server_guard.is_some()
IsSome(server_guard) == server_guard # NoServer

\* lines 13-103: one call. The block of lines 14-89 holds the ws_state lock
\* from the check to the store; the start() task of lines 94-101 is spawned
\* before the call returns.
InitExtensionConnection ==
    /\ Len(init_results) < MaxCalls
    /\ IF IsSome(ws_state)
       THEN /\ init_results' = Append(init_results, AlreadyRunning)
            /\ UNCHANGED <<ws_state, servers>>
       ELSE /\ servers' = Append(servers, "starting")
            /\ ws_state' = Len(servers) + 1
            /\ init_results' = Append(init_results, Started)
    /\ UNCHANGED <<lyrics_vars, connections, clients, track_tasks, processed,
                   current_track, events>>

\* websocket.rs lines 59-91, TcpListener::bind: Ok while no listener of this
\* process holds the port, Err whenever the port is taken (by this process
\* or by another one)
Bind(s) ==
    /\ servers[s] = "starting"
    /\ \/ /\ \A other \in DOMAIN servers : servers[other] # "listening"
          /\ servers' = [servers EXCEPT ![s] = "listening"]
       \/ servers' = [servers EXCEPT ![s] = "bind failed"]
    /\ UNCHANGED <<lyrics_vars, ws_state, init_results, connections, clients, track_tasks,
                   processed,
                   current_track, events>>

\* websocket_commands.rs lines 95-100: start() returned Err; the task takes
\* the lock and stores None
ClearStored(s) ==
    /\ servers[s] = "bind failed"
    /\ ws_state' = NoServer
    /\ servers' = [servers EXCEPT ![s] = "cleared"]
    /\ UNCHANGED <<lyrics_vars, init_results, connections, clients, track_tasks, processed,
                   current_track, events>>

\* websocket.rs lines 69-80: accept() returned Err, the loop ends and start()
\* returns Ok(()); the listener is dropped and the server stays stored
AcceptFails(s) ==
    /\ servers[s] = "listening"
    /\ servers' = [servers EXCEPT ![s] = "stopped"]
    /\ UNCHANGED <<lyrics_vars, ws_state, init_results, connections, clients, track_tasks,
                   processed,
                   current_track, events>>

\* websocket.rs lines 69-77: accept() returned a stream; handle_connection is spawned
Accept(s) ==
    /\ servers[s] = "listening"
    /\ Len(connections) < MaxConnections
    /\ connections' = Append(connections,
                             [pc |-> "greeting", forwarder |-> "none", pending |-> 0,
                              ending |-> "none"])
    /\ UNCHANGED <<lyrics_vars, ws_state, servers, init_results, clients, track_tasks,
                   processed,
                   current_track, events>>

\* handle_connection lines 159-180: the handshake and the welcome message;
\* either ? returns Err before the client is known to the map
Greet(c) ==
    /\ connections[c].pc = "greeting"
    /\ \/ connections' = [connections EXCEPT ![c].pc = "registering"]
       \/ connections' = [connections EXCEPT ![c].pc = "ended", ![c].ending = "handshake error"]
    /\ UNCHANGED <<lyrics_vars, ws_state, servers, init_results, clients, track_tasks,
                   processed,
                   current_track, events>>

\* handle_connection lines 183-202: the channel is created, its sender is
\* inserted under the client id, the forwarding task takes the receiver
Register(c) ==
    /\ connections[c].pc = "registering"
    /\ clients' = clients \cup {c}
    /\ connections' = [connections EXCEPT ![c].pc = "serving", ![c].forwarder = "running"]
    /\ UNCHANGED <<lyrics_vars, ws_state, servers, init_results, track_tasks, processed,
                   current_track, events>>

\* the tracks of the updates: two titles, the first one by two artists
Tracks == {[title |-> "X", artist |-> "p"], [title |-> "Y", artist |-> "p"],
           [title |-> "X", artist |-> "q"]}

\* Option<f64> currentTime: None
NoTime == -1

\* Option<f64> currentTime: absent, 0.0 or a later position
CurrentTimes == {NoTime, 0, 1}

\* TrackUpdate: the fields the handler task reads
Updates == {[title |-> t.title, artist |-> t.artist, current_time |-> ct] :
               t \in Tracks, ct \in CurrentTimes}

\* handle_connection lines 207-227 with websocket_commands.rs lines 25-84: a
\* track message that parses; the callback spawns the handler task. (The
\* playback-state and track-time-update events it emits touch no state.)
ReceiveTrack(c) ==
    /\ connections[c].pc = "serving"
    /\ Len(track_tasks) < MaxUpdates
    /\ \E track_update \in Updates :
          track_tasks' = Append(track_tasks,
                                [update |-> track_update, connection |-> c,
                                 pc |-> "spawned", emitted |-> FALSE])
    /\ UNCHANGED <<lyrics_vars, ws_state, servers, init_results, connections, clients,
                   processed,
                   current_track, events>>

\* handle_connection lines 228-244: ping; the pong goes into the channel of
\* the client if the map holds it and the receiver is alive (the result of
\* send is dropped)
ReceivePing(c) ==
    /\ connections[c].pc = "serving"
    /\ c \in clients
    /\ connections[c].forwarder = "running"
    /\ connections[c].pending < MaxPending
    /\ connections' = [connections EXCEPT ![c].pending = @ + 1]
    /\ UNCHANGED <<lyrics_vars, ws_state, servers, init_results, clients, track_tasks,
                   processed,
                   current_track, events>>

\* handle_connection lines 205, 256-259: a close frame, or the end of the stream
ReceiveClose(c) ==
    /\ connections[c].pc = "serving"
    /\ \E how \in {"close frame", "end of stream"} :
          connections' = [connections EXCEPT ![c].pc = "removing", ![c].ending = how]
    /\ UNCHANGED <<lyrics_vars, ws_state, servers, init_results, clients, track_tasks,
                   processed,
                   current_track, events>>

\* handle_connection line 206: msg? on a receive error returns Err at once
ReceiveError(c) ==
    /\ connections[c].pc = "serving"
    /\ connections' = [connections EXCEPT ![c].pc = "ended", ![c].ending = "receive error"]
    /\ UNCHANGED <<lyrics_vars, ws_state, servers, init_results, clients, track_tasks,
                   processed,
                   current_track, events>>

\* handle_connection lines 264-271: the entry is removed and Ok(()) returned
RemoveClient(c) ==
    /\ connections[c].pc = "removing"
    /\ clients' = clients \ {c}
    /\ connections' = [connections EXCEPT ![c].pc = "ended"]
    /\ UNCHANGED <<lyrics_vars, ws_state, servers, init_results, track_tasks, processed,
                   current_track, events>>

\* handle_connection lines 194-202: the forwarding task sends one message of
\* the channel to the socket; a failed send ends the task and drops the receiver
Forward(c) ==
    /\ connections[c].forwarder = "running"
    /\ connections[c].pending > 0
    /\ \/ connections' = [connections EXCEPT ![c].pending = @ - 1]
       \/ connections' = [connections EXCEPT ![c].pending = 0, ![c].forwarder = "ended"]
    /\ UNCHANGED <<lyrics_vars, ws_state, servers, init_results, clients, track_tasks,
                   processed,
                   current_track, events>>

\* handle_connection line 195: recv() gives None once the sender, which lives
\* in the map, is dropped and the channel is empty
ForwarderEnds(c) ==
    /\ connections[c].forwarder = "running"
    /\ connections[c].pending = 0
    /\ c \notin clients
    /\ connections' = [connections EXCEPT ![c].forwarder = "ended"]
    /\ UNCHANGED <<lyrics_vars, ws_state, servers, init_results, clients, track_tasks,
                   processed,
                   current_track, events>>

\* websocket_commands.rs lines 167-181, websocket.rs lines 93-130: a playback
\* command is sent to every client of the stored server; the clients whose
\* channel is closed are removed from the map
Broadcast ==
    /\ IsSome(ws_state)
    /\ clients # {}
    /\ \A c \in clients :
          connections[c].forwarder = "running" => connections[c].pending < MaxPending
    /\ connections' = [c \in DOMAIN connections |->
                          IF c \in clients /\ connections[c].forwarder = "running"
                          THEN [connections[c] EXCEPT !.pending = @ + 1]
                          ELSE connections[c]]
    /\ clients' = {c \in clients : connections[c].forwarder = "running"}
    /\ UNCHANGED <<lyrics_vars, ws_state, servers, init_results, track_tasks, processed,
                   current_track, events>>

\* TrackInfo: the fields line 44-45 compare
TrackInfo(track_update) ==
    [some |-> TRUE, title |-> track_update.title, artist |-> track_update.artist]

\* ShouldEmit emitting for every update
ShouldEmitAlways(existing_track, track_info) == TRUE

\* websocket_commands.rs lines 41-48: should_emit
ShouldEmit(existing_track, track_info) ==
    IF existing_track.some
    THEN existing_track.title # track_info.title \/ existing_track.artist # track_info.artist
    ELSE TRUE

\* websocket_commands.rs lines 38-65: one handler task runs; lines 40-63 hold
\* the lock of the track state
HandlerRuns(t) ==
    /\ track_tasks[t].pc = "spawned"
    /\ LET track_update == track_tasks[t].update
           track_info == TrackInfo(track_update)
       IN IF /\ track_update.current_time \in {NoTime, 0}
             /\ ShouldEmit(current_track, track_info)
          THEN /\ current_track' = track_info
               /\ events' = Append(events, track_info)
               /\ track_tasks' = [track_tasks EXCEPT ![t].pc = "done", ![t].emitted = TRUE]
          ELSE /\ track_tasks' = [track_tasks EXCEPT ![t].pc = "done"]
               /\ UNCHANGED <<lyrics_vars, current_track, events>>
    /\ processed' = Append(processed, t)
    /\ UNCHANGED <<lyrics_vars, ws_state, servers, init_results, connections, clients>>

\* the entry of processed for a set_current_track command
Command == 0

\* commands.rs lines 12-19: set_current_track stores the track of the caller
SetCurrentTrack ==
    /\ Cardinality({i \in DOMAIN processed : processed[i] = Command}) < MaxCommands
    /\ \E track \in Tracks :
          current_track' = [some |-> TRUE, title |-> track.title, artist |-> track.artist]
    /\ processed' = Append(processed, Command)
    /\ UNCHANGED <<lyrics_vars, ws_state, servers, init_results, connections, clients,
                   track_tasks, events>>

SocketInit ==
    /\ pc = "socket"
    /\ track_name = <<>>
    /\ artist_name = <<>>
    /\ Idle

SocketNext ==
    \/ InitExtensionConnection
    \/ \E s \in DOMAIN servers : Bind(s)
    \/ \E s \in DOMAIN servers : ClearStored(s)
    \/ \E s \in DOMAIN servers : AcceptFails(s)
    \/ \E s \in DOMAIN servers : Accept(s)
    \/ \E c \in DOMAIN connections : Greet(c)
    \/ \E c \in DOMAIN connections : Register(c)
    \/ \E c \in DOMAIN connections : ReceivePing(c)
    \/ \E c \in DOMAIN connections : ReceiveClose(c)
    \/ \E c \in DOMAIN connections : ReceiveError(c)
    \/ \E c \in DOMAIN connections : RemoveClient(c)
    \/ \E c \in DOMAIN connections : Forward(c)
    \/ \E c \in DOMAIN connections : ForwarderEnds(c)
    \/ Broadcast

\* the server, its connections and their clients
SpecSocket == SocketInit /\ [][SocketNext]_vars

\* a server is listening and two connections are registered and serving: a
\* state in which track messages arrive
TrackInit ==
    /\ pc = "socket"
    /\ track_name = <<>>
    /\ artist_name = <<>>
    /\ lyrics_text = <<>>
    /\ json = <<>>
    /\ candidates = <<>>
    /\ top_priority = 0
    /\ task = <<>>
    /\ token = <<>>
    /\ cancel_all = FALSE
    /\ best = NoBest
    /\ best_priority = 0
    /\ timed_out = FALSE
    /\ search_result = NoResult
    /\ result = NoResult
    /\ fn_out = None
    /\ ws_state = 1
    /\ servers = <<"listening">>
    /\ init_results = <<Started>>
    /\ connections = <<[pc |-> "serving", forwarder |-> "running", pending |-> 0,
                         ending |-> "none"],
                        [pc |-> "serving", forwarder |-> "running", pending |-> 0,
                         ending |-> "none"]>>
    /\ clients = {1, 2}
    /\ track_tasks = <<>>
    /\ processed = <<>>
    /\ current_track = NoTrack
    /\ events = <<>>

TrackNext ==
    \/ \E c \in DOMAIN connections : ReceiveTrack(c)
    \/ \E t \in DOMAIN track_tasks : HandlerRuns(t)
    \/ SetCurrentTrack

\* the track messages of the serving connections, their handler tasks and
\* the set_current_track command
SpecTrack == TrackInit /\ [][TrackNext]_vars

(***************************************************************************)
(* Properties                                                              *)
(***************************************************************************)
ReturnedNonEmpty(i) == task[i].status = "returned" /\ task[i].lyrics # <<>>

\* C1: once the task of the top-priority candidate has returned non-empty
\* lyrics the call no longer waits, whatever the other tasks are doing; the
\* best, the search result and the value fetch_lyrics returns are that
\* candidate's lyrics, and by the time the search has returned the parent
\* token and the token of every task, the still-running ones included, are
\* cancelled.
C1_PriorityShortCircuit ==
    \A i \in DOMAIN task :
        (candidates[i].priority = top_priority /\ ReturnedNonEmpty(i)) =>
            /\ pc # "waiting"
            /\ best = [some |-> TRUE, candidate |-> candidates[i], lyrics |-> task[i].lyrics]
            /\ pc \in {"mapping", "returned"} =>
                  /\ search_result = Ok([winner |-> candidates[i], lyrics |-> task[i].lyrics])
                  /\ cancel_all
                  /\ \A j \in DOMAIN task : token[j]
            /\ pc = "returned" => result = Ok(task[i].lyrics)

\* the top candidate won while two other tasks were still running; both were
\* aborted with their tokens cancelled
C1_Witness ==
    /\ pc = "returned"
    /\ \E i \in DOMAIN task :
          /\ candidates[i].priority = top_priority
          /\ ReturnedNonEmpty(i)
          /\ result = Ok(task[i].lyrics)
    /\ \E j, k \in DOMAIN task :
          /\ j # k
          /\ task[j].status = "aborted" /\ token[j]
          /\ task[k].status = "aborted" /\ token[k]

\* C2: when the race has ended without the overall timeout and some task
\* returned non-empty lyrics, the result is the lyrics of the task of highest
\* priority among those that returned non-empty lyrics, in whatever order
\* the tasks completed.
C2_WinnerByPriority ==
    (pc = "returned" /\ task # <<>> /\ ~timed_out) =>
        LET voters == {i \in DOMAIN task : ReturnedNonEmpty(i)}
        IN voters # {} =>
              \E w \in voters :
                  /\ \A j \in voters : candidates[j].priority <= candidates[w].priority
                  /\ search_result = Ok([winner |-> candidates[w], lyrics |-> task[w].lyrics])
                  /\ result = Ok(task[w].lyrics)

\* three tasks returned non-empty lyrics and the call returned without a timeout
C2_Witness ==
    /\ pc = "returned"
    /\ ~timed_out
    /\ result.ok
    /\ Cardinality({i \in DOMAIN task : ReturnedNonEmpty(i)}) >= 3

\* a candidate casts no vote: its request was never issued, its task failed,
\* or its task returned empty lyrics
NoVote(i) ==
    \/ i \notin DOMAIN task
    \/ task[i].status = "failed"
    \/ task[i].status = "returned" /\ task[i].lyrics = <<>>

C4_TimeoutPartialReturn ==
    (pc = "returned" /\ timed_out) =>
        IF best.some
        THEN /\ best.lyrics # <<>>
             /\ search_result = Ok([winner |-> best.candidate, lyrics |-> best.lyrics])
             /\ result = Ok(best.lyrics)
        ELSE /\ ~result.ok
             /\ \A i \in DOMAIN task : ~ReturnedNonEmpty(i)

\* the timeout fired while the top candidate was still running and a
\* candidate of lower priority had returned lyrics: the call succeeded
C4_Witness ==
    /\ pc = "returned"
    /\ timed_out
    /\ result.ok
    /\ best.candidate.priority < top_priority
    /\ \E i \in DOMAIN task :
          candidates[i].priority = top_priority /\ task[i].status = "aborted"

BestIsRecorded ==
    IF best.some
    THEN /\ best.lyrics # <<>>
         /\ best.candidate.priority = best_priority
         /\ \E i \in DOMAIN task :
               /\ candidates[i] = best.candidate
               /\ task[i].status = "returned"
               /\ task[i].lyrics = best.lyrics
    ELSE best_priority = 0

\* C5: in every state the recorded best is a non-empty result returned by
\* the task of the candidate whose priority is best_priority, and no step
\* lowers best_priority or forgets a recorded best.
C5_BestNeverLowered ==
    /\ []BestIsRecorded
    /\ [][best_priority' >= best_priority /\ (best.some => best'.some)]_vars

\* while the call waits, a task of lower priority than the recorded best has
\* returned non-empty lyrics too
C5_Witness ==
    /\ pc = "waiting"
    /\ best.some
    /\ \E j \in DOMAIN task :
          ReturnedNonEmpty(j) /\ candidates[j].priority < best_priority

\* C6: once search_strict_priority has returned with tasks spawned, the
\* parent token and every child token are cancelled and no task is running.
C6_TerminationCleanup ==
    (pc \in {"mapping", "returned"} /\ task # <<>>) =>
        /\ cancel_all
        /\ \A i \in DOMAIN task : token[i] /\ task[i].status # "running"

\* the call failed on the overall timeout with tasks still in flight, which
\* were aborted
C6_Witness ==
    /\ pc = "returned"
    /\ timed_out
    /\ ~result.ok
    /\ \E i \in DOMAIN task : task[i].status = "aborted"

\* C7 as stated: every error fetch_lyrics returns is the not-found error.
C7_OnlyNotFound ==
    (pc = "returned" /\ ~result.ok) => result.error[1] = "No lyrics found: "

\* C7 amended: a call that generated no candidate returns the error "No
\* valid search candidates"; every other error fetch_lyrics returns is the
\* not-found error, "No lyrics found: " followed by the cause.
C7_ErrorValues ==
    (pc = "returned" /\ ~result.ok) =>
        IF candidates = <<>>
        THEN result.error = <<"No valid search candidates">>
        ELSE /\ Len(result.error) = 2
             /\ result.error[1] = "No lyrics found: "
             /\ result.error[2] \in {"All candidates returned empty",
                                     "Overall timeout with no results",
                                     "client build error"}

\* a call on a blank title: no candidate, and the error is not the
\* not-found error
C7_Witness ==
    /\ pc = "returned"
    /\ IsBlank(track_name)
    /\ candidates = <<>>
    /\ result = Err(<<"No valid search candidates">>)

\* the candidates fetch_lyrics generates, from the highest rank to the lowest
Ranking ==
    << "wildcard: title artist", "wildcard: title",
       "wildcard cleaned: title artist", "wildcard cleaned: title",
       "exact", "exact without artist", "exact cleaned",
       "exact cleaned without artist" >>

RankOf(description) == CHOOSE r \in DOMAIN Ranking : Ranking[r] = description

\* the query a candidate of the given description carries, given the cleaned
\* title, the title without the artist and the cleaned title without the artist
QueryOf(description, cleaned_track, track_without_artist, cleaned_track_without_artist) ==
    CASE description = "wildcard: title artist" -> <<"wildcard", track_name, artist_name>>
      [] description = "wildcard: title" -> <<"wildcard", track_name, None>>
      [] description = "wildcard cleaned: title artist" -> <<"wildcard", cleaned_track, artist_name>>
      [] description = "wildcard cleaned: title" -> <<"wildcard", cleaned_track, None>>
      [] description = "exact" -> <<"exact", track_name, artist_name>>
      [] description = "exact without artist" -> <<"exact", track_without_artist, artist_name>>
      [] description = "exact cleaned" -> <<"exact", cleaned_track, artist_name>>
      [] description = "exact cleaned without artist" ->
             <<"exact", cleaned_track_without_artist, artist_name>>

\* C8: the candidates have pairwise distinct priorities, each carries the
\* query of its rank, a candidate of a higher rank has a higher priority,
\* and after the sort top_priority is the greatest priority generated.
C8_CandidateRanking ==
    /\ \A i, j \in DOMAIN candidates :
          /\ i # j => candidates[i].priority # candidates[j].priority
          /\ RankOf(candidates[i].description) < RankOf(candidates[j].description)
                => candidates[i].priority > candidates[j].priority
    /\ candidates # <<>> =>
          LET cleaned_track == clean_track_name(track_name)
              track_without_artist == remove_artist_from_track(track_name, artist_name)
              cleaned_track_without_artist == clean_track_name(track_without_artist)
          IN \A i \in DOMAIN candidates :
                /\ candidates[i].description \in {Ranking[r] : r \in DOMAIN Ranking}
                /\ <<candidates[i].shape, candidates[i].title, candidates[i].artist>>
                      = QueryOf(candidates[i].description, cleaned_track,
                                track_without_artist, cleaned_track_without_artist)
    /\ pc \in {"waiting", "mapping"} =>
          /\ \A i \in DOMAIN candidates : candidates[i].priority <= top_priority
          /\ \E i \in DOMAIN candidates : candidates[i].priority = top_priority

\* all eight candidates were generated and dispatched
C8_Witness ==
    /\ pc = "waiting"
    /\ Len(candidates) = 8
    /\ top_priority = 10

\* C9: no candidate carries a blank title or a blank artist, and a call
\* whose candidates were all omitted returns without spawning a task.
C9_NoBlankQuery ==
    /\ \A i \in DOMAIN candidates :
          /\ ~IsBlank(candidates[i].title)
          /\ candidates[i].artist # None => ~IsBlank(candidates[i].artist)
    /\ (pc # "start" /\ candidates = <<>>) =>
          (pc \in {"returned", "panicked"} /\ task = <<>>)

\* the title is not blank but cleans to a blank string: the candidates
\* built on the cleaned title are omitted, the others are dispatched
C9_Witness ==
    /\ pc = "waiting"
    /\ ~IsBlank(artist_name)
    /\ IsBlank(clean_track_name(track_name))
    /\ Len(candidates) = 4

\* C10 as stated: clean_track_name returns a string for every title.
C10_NeverPanics ==
    pc = "cleaned" => fn_out # Panic

\* C11: clean_track_name never returns the empty string for a non-empty
\* title, whitespace-only titles and quote pairs around whitespace included.
C11_NeverEmpty ==
    (pc = "cleaned" /\ track_name # <<>>) => fn_out # <<>>

\* C12: cleaning a cleaned title changes nothing:
\* clean_track_name(clean_track_name(x)) = clean_track_name(x), also when the
\* first pass returned the content of a quotation pair that holds a separator.
C12_Idempotent ==
    (pc = "cleaned" /\ fn_out # Panic) => clean_track_name(fn_out) = fn_out

\* a Japanese title and a romanized one: non-empty runs of the three-byte
\* letter and of the ASCII letter
JapaneseTitles == StrSet({Hiragana}, MaxTitleLen) \ {<<>>}
RomanizedTitles == StrSet({"a"}, MaxTitleLen) \ {<<>>}

\* C13: a title "T - R", T a Japanese title and R its romanization, cleans
\* to T, the segment before the hyphen.
C13_JapaneseBeforeHyphen ==
    \A T \in JapaneseTitles, R \in RomanizedTitles :
        (pc = "cleaned" /\ track_name = T \o SpacedDash \o R) => fn_out = T

\* the core titles of C14: non-empty, no separator, no platform name
CoreTitles == StrSet({"a", Hiragana}, MaxTitleLen) \ {<<>>}

\* C14: a title that carries a trailing " - YouTube" cleans to a string that
\* still contains the core title and does not contain YouTube.
C14_YouTubeSuffixRemoved ==
    \A core \in CoreTitles :
        (pc = "cleaned" /\ track_name = core \o SpacedDash \o <<YouTube>>) =>
            /\ fn_out # Panic
            /\ Contains(fn_out, core)
            /\ ~Contains(fn_out, <<YouTube>>)

\* the drawn lines that start with a tag and carry non-blank text
TaggedNonBlank(line) ==
    \E tag \in LrcTags, text \in LrcTexts : ~IsBlank(text) /\ line = TaggedLine(tag, text)

\* the time a tag stands for, in hundredths of a second
TagTime(tag) ==
    (tag[1] * 60 + tag[2]) * CentisPerSecond + (IF tag[3] < 0 THEN 0 ELSE tag[3])

\* the times of the tagged lines with non-blank text among the given lines
TaggedTimes(lines) ==
    {TagTime(tag) : tag \in {t \in LrcTags :
        \E k \in DOMAIN lines, text \in LrcTexts :
            ~IsBlank(text) /\ lines[k] = TaggedLine(t, text)}}

\* C16: for a text of N tagged lines with non-blank text, in any order,
\* parse_lrc_format returns N lines carrying the tagged times, sorted
\* ascending by time; each line but the last has the gap to the next line as
\* its duration and the last line has duration 3.0.
C16_LrcRoundTrip ==
    pc = "parsed" =>
        LET lines == Lines(lyrics_text)
            N == Len(lines)
        IN (\A k \in 1..N : TaggedNonBlank(lines[k])) =>
              /\ Len(fn_out) = N
              /\ {fn_out[i].time : i \in 1..N} = TaggedTimes(lines)
              /\ \A i \in 1..(N - 1) :
                    /\ fn_out[i].time <= fn_out[i + 1].time
                    /\ fn_out[i].duration = fn_out[i + 1].time - fn_out[i].time
              /\ N > 0 => fn_out[N].duration = LastLineSeconds * CentisPerSecond

\* three tagged lines given latest first have been parsed into time order
C16_Witness ==
    /\ pc = "parsed"
    /\ lyrics_text = JoinLines(<<TaggedLine(<<1, 0, 0>>, <<"a">>),
                                 TaggedLine(<<0, 1, 50>>, <<"a">>),
                                 TaggedLine(<<0, 0, -1>>, <<" ", "a">>)>>)
    /\ Len(fn_out) = 3
    /\ fn_out[1].time = 0
    /\ fn_out[1].duration = TagTime(<<0, 1, 50>>)
    /\ fn_out[3].time = TagTime(<<1, 0, 0>>)

\* C17: parse_lrc_format rejects no payload: a line without a tag at its
\* start is ignored, a tagged line with blank text is dropped (so exactly the
\* tagged lines with non-blank text are returned), every returned line has
\* non-empty text and a time >= 0, and the empty text gives the empty sequence.
C17_LrcNeverRejects ==
    pc = "parsed" =>
        LET lines == Lines(lyrics_text)
        IN /\ Len(fn_out) = Cardinality({k \in DOMAIN lines : TaggedNonBlank(lines[k])})
           /\ \A i \in DOMAIN fn_out : fn_out[i].text # <<>> /\ fn_out[i].time >= 0
           /\ lyrics_text = <<>> => fn_out = <<>>

\* an untagged line, a tagged line with blank text and a good line: only
\* the good line is returned
C17_Witness ==
    /\ pc = "parsed"
    /\ lyrics_text = JoinLines(<<<<"a">>,
                                 TaggedLine(<<0, 1, 50>>, <<" ">>),
                                 TaggedLine(<<1, 0, -1>>, <<"a">>)>>)
    /\ Len(fn_out) = 1
    /\ fn_out[1].text = <<"a">>
    /\ fn_out[1].time = TagTime(<<1, 0, -1>>)

\* C18: for a plain text with M non-blank lines, blank lines interleaved or
\* not, convert_plain_lyrics_to_lines returns M lines and the line at index i
\* (from 0) of the returned sequence has time 5.0 * i and duration 5.0.
C18_PlainSpacing ==
    pc = "converted" =>
        LET lines == Lines(lyrics_text)
        IN /\ Len(fn_out) = Cardinality({k \in DOMAIN lines : ~IsBlank(lines[k])})
           /\ \A i \in DOMAIN fn_out :
                 /\ fn_out[i].time = PlainLineSeconds * CentisPerSecond * (i - 1)
                 /\ fn_out[i].duration = PlainLineSeconds * CentisPerSecond

\* C19: every sequence either decoder returns is sorted ascending by time and
\* each line but the last has the gap to the next line's time as its duration.
C19_SequenceInvariant ==
    pc \in {"parsed", "converted"} =>
        \A i \in 1..(Len(fn_out) - 1) :
            /\ fn_out[i].time <= fn_out[i + 1].time
            /\ fn_out[i].duration = fn_out[i + 1].time - fn_out[i].time

\* the artist, in any case, opens the track and a dash follows it, spaces
\* between them or not
LeadingOccurrence(track, artist) ==
    /\ Len(track) > Len(artist)
    /\ Fold(SubSeq(track, 1, Len(artist))) = Fold(artist)
    /\ \E j \in (Len(artist) + 1)..Len(track) :
          /\ track[j] = Dash
          /\ \A k \in (Len(artist) + 1)..(j - 1) : IsWhitespace(track[k])

\* the artist, in any case, closes the track (trailing spaces aside) and a
\* dash precedes it, spaces between them or not
TrailingOccurrence(track, artist) ==
    \E e \in Len(artist)..Len(track) :
        /\ \A k \in (e + 1)..Len(track) : IsWhitespace(track[k])
        /\ Fold(SubSeq(track, e - Len(artist) + 1, e)) = Fold(artist)
        /\ \E j \in 1..(e - Len(artist)) :
              /\ track[j] = Dash
              /\ \A k \in (j + 1)..(e - Len(artist)) : IsWhitespace(track[k])

ArtistAtAnEnd ==
    \/ LeadingOccurrence(track_name, artist_name)
    \/ TrailingOccurrence(track_name, artist_name)

\* C20 as claimed: the result of remove_artist_from_track is never longer
\* than the track, never empty for a non-empty track, and is the track
\* unchanged when the artist is blank or does not occur at either end next
\* to a dash.
C20_OnlyRemovesArtist ==
    pc = "removed" =>
        /\ ByteLen(fn_out) <= ByteLen(track_name)
        /\ track_name # <<>> => fn_out # <<>>
        /\ (IsBlank(artist_name) \/ ~ArtistAtAnEnd) => fn_out = track_name

\* C20 as amended: the result is never longer than the track and never
\* empty for a non-empty track; it is the track unchanged when the artist is
\* blank; when the artist is not blank and does not occur at either end next
\* to a dash it is the track with its surrounding whitespace trimmed (the
\* track itself if it is blank).
C20_RemovesArtistOrTrims ==
    pc = "removed" =>
        /\ ByteLen(fn_out) <= ByteLen(track_name)
        /\ track_name # <<>> => fn_out # <<>>
        /\ IsBlank(artist_name) => fn_out = track_name
        /\ (~IsBlank(artist_name) /\ ~ArtistAtAnEnd) =>
              fn_out = (IF IsBlank(track_name) THEN track_name ELSE Trim(track_name))

\* a track with a leading space and no occurrence of the artist has been
\* returned trimmed
C20_Witness ==
    /\ pc = "removed"
    /\ artist_name = <<"a">>
    /\ track_name = <<" ", Hiragana, Dash, Hiragana>>
    /\ ~ArtistAtAnEnd
    /\ fn_out = <<Hiragana, Dash, Hiragana>>

\* while the race is on, a cancelled token belongs to a task of lower
\* priority than the current best
OnlyLowerCancelled ==
    pc \in {"waiting", "cleanup"} =>
        \A i \in DOMAIN token :
            token[i] => (best.some /\ candidates[i].priority < best_priority)

\* C21: when a non-empty result becomes the new best below the top priority,
\* the cancelled tokens are at that moment exactly those of the tasks of
\* strictly lower priority than the new best; and until the call terminates
\* no task of a priority higher than (or equal to) the current best is
\* cancelled.
C21_SelectiveCancellation ==
    /\ []OnlyLowerCancelled
    /\ [][(best' # best /\ best_priority' # top_priority) =>
            \A i \in DOMAIN token' :
                token'[i] <=> candidates[i].priority < best_priority']_vars

\* a best below the top priority is held: a running task of lower priority
\* is cancelled while a running task of higher priority is not
C21_Witness ==
    /\ pc = "waiting"
    /\ best.some
    /\ best_priority < top_priority
    /\ \E i \in DOMAIN task :
          task[i].status = "running" /\ token[i] /\ candidates[i].priority < best_priority
    /\ \E j \in DOMAIN task :
          task[j].status = "running" /\ ~token[j] /\ candidates[j].priority > best_priority

\* C22: under fairness every call of search_strict_priority returns: from
\* any state between its start and its cleanup the call reaches its return.
C22_Terminates ==
    (pc \in {"dispatch", "waiting", "cleanup"}) ~> (pc \in {"mapping", "returned"})

\* the search has returned after a race in which one task failed and one
\* was still running when the wait ended
C22_Witness ==
    /\ pc = "mapping"
    /\ search_result # NoResult
    /\ \E i \in DOMAIN task : task[i].status = "failed"
    /\ \E j \in DOMAIN task : task[j].status = "aborted"

\* C23: in a non-empty list of records the record decoded is the first one
\* with non-blank synchronized lyrics if there is one, otherwise the first
\* one with non-blank plain lyrics if there is one, otherwise the first record.
C23_RecordSelection ==
    (pc = "decoded" /\ json # <<>>) =>
        LET Synced(k) == HasText(json[k].syncedLyrics)
            Plain(k) == HasText(json[k].plainLyrics)
            FirstWith(k, synced) ==
                IF synced
                THEN Synced(k) /\ \A j \in 1..(k - 1) : ~Synced(j)
                ELSE Plain(k) /\ \A j \in 1..(k - 1) : ~Plain(j)
        IN \A k \in DOMAIN json :
              /\ FirstWith(k, TRUE) => fn_out.track_data = json[k]
              /\ ((\A j \in DOMAIN json : ~Synced(j)) /\ FirstWith(k, FALSE)) =>
                    fn_out.track_data = json[k]
              /\ (\A j \in DOMAIN json : ~Synced(j) /\ ~Plain(j)) =>
                    fn_out.track_data = json[1]

\* the second record is decoded: the first has plain lyrics only, the second
\* has synchronized lyrics
C23_Witness ==
    /\ pc = "decoded"
    /\ json = <<Record(None, <<"a">>), Record(TaggedLine(<<0, 1, 50>>, <<"a">>), None)>>
    /\ fn_out.track_data = json[2]
    /\ Len(fn_out.lyrics) = 1

\* C24: when the selected record has non-blank synchronized lyrics only the
\* LRC decoder is applied to it; if that text decodes to no line the
\* candidate's lyrics are empty and count as no vote, whatever plain lyrics
\* the same record or another record of the response holds.
C24_NoDecoderFallback ==
    (pc = "decoded" /\ json # <<>> /\ HasText(fn_out.track_data.syncedLyrics)) =>
        /\ fn_out.lyrics = parse_lrc_format(fn_out.track_data.syncedLyrics)
        /\ parse_lrc_format(fn_out.track_data.syncedLyrics) = <<>> =>
              (fn_out.lyrics = <<>> /\ ~NonEmpty(fn_out.lyrics))

\* the selected record holds synchronized text without a tag and plain
\* lyrics, and another record holds plain lyrics: the lyrics are empty
C24_Witness ==
    /\ pc = "decoded"
    /\ json = <<Record(<<>>, <<"a">>), Record(<<"a">>, <<"a">>)>>
    /\ fn_out.track_data = json[2]
    /\ fn_out.lyrics = <<>>

\* C25: a title that contains a corner-bracket pair enclosing at least 3
\* characters cleans to that content, also when the title contains a bracket
\* pair whose content qualifies as a title.
C25_CornerBracketsFirst ==
    \A c \in BracketContents :
        (/\ pc = "cleaned"
         /\ Len(c) >= 3
         /\ Contains(track_name, <<LeftWhiteCorner>> \o c \o <<RightWhiteCorner>>)) =>
            fn_out = c

\* the conditions of the dash split: both segments non-empty, A at most 3
\* times as long as B, B no platform label, A different from B
DashGuard(A, B) ==
    /\ A # <<>>
    /\ B # <<>>
    /\ ByteLen(A) <= 3 * ByteLen(B)
    /\ ~Contains(B, <<YouTube>>)
    /\ A # B

\* C26: a title "A - B" cleans to the after-segment B only if A and B are
\* non-empty, A is not more than 3 times longer than B, B does not look like
\* a platform label and A differs from B; when one of these conditions fails
\* the result is not B.
C26_DashSplitGuard ==
    \A A \in BeforeSegments, B \in AfterSegments :
        (pc = "cleaned" /\ track_name = A \o SpacedDash \o B /\ ~DashGuard(A, B)) =>
            fn_out # B

\* the servers created and not cleared from the state
LiveServers == {s \in DOMAIN servers : servers[s] # "cleared"}

\* at most one server is alive, and it is the stored one
OneServer ==
    /\ Cardinality(LiveServers) <= 1
    /\ ws_state # NoServer => LiveServers = {ws_state}
    /\ ws_state = NoServer => LiveServers = {}

\* C27: under every interleaving of init_extension_connection calls and
\* start() tasks at most one server is created and stored at a time; a call
\* that finds a stored server returns "already running" and creates and
\* binds nothing; the stored server is cleared only after its own bind
\* attempt has failed.
C27_SingleServer ==
    /\ []OneServer
    /\ [][(Len(init_results') > Len(init_results) /\ ws_state # NoServer) =>
              (/\ init_results' = Append(init_results, AlreadyRunning)
               /\ servers' = servers
               /\ ws_state' = ws_state)]_vars
    /\ [][(ws_state # NoServer /\ ws_state' = NoServer) =>
              (servers[ws_state] = "bind failed" /\ servers'[ws_state] = "cleared")]_vars

\* a first server failed to bind and was cleared, a later call created a
\* second one that listens, and a call that found it stored did nothing
C27_Witness ==
    /\ servers = <<"cleared", "listening">>
    /\ init_results = <<Started, Started, AlreadyRunning>>
    /\ ws_state = 2

\* whether two handler tasks carry the same title and artist
SameTrack(t1, t2) ==
    /\ track_tasks[t1].update.title = track_tasks[t2].update.title
    /\ track_tasks[t1].update.artist = track_tasks[t2].update.artist

\* two handler tasks that held the lock one after the other, with the same
\* title and artist, did not both emit
SameTrackOnce ==
    \A i \in 1..(Len(processed) - 1) :
        (/\ processed[i] # Command
         /\ processed[i + 1] # Command
         /\ SameTrack(processed[i], processed[i + 1])) =>
            ~(track_tasks[processed[i]].emitted /\ track_tasks[processed[i + 1]].emitted)

\* C28: track-updated is emitted only by the handler task of an update whose
\* currentTime is absent or 0 and whose title or artist differs from the
\* stored track (or when none is stored), and the same step stores the track
\* of that update; two updates with the same title and artist processed one
\* after the other emit at most once.
C28_TrackChangeDeduplication ==
    /\ []SameTrackOnce
    /\ [][events' # events =>
              \E t \in DOMAIN track_tasks :
                  LET u == track_tasks[t].update
                  IN /\ track_tasks[t].pc = "spawned"
                     /\ track_tasks'[t].pc = "done"
                     /\ u.current_time \in {NoTime, 0}
                     /\ \/ current_track = NoTrack
                        \/ current_track.title # u.title
                        \/ current_track.artist # u.artist
                     /\ current_track' = [some |-> TRUE, title |-> u.title, artist |-> u.artist]
                     /\ events' = Append(events, current_track')]_vars

\* two updates with the same title and artist were processed one after the
\* other: the first emitted, the second did not
C28_Witness ==
    /\ Len(track_tasks) = 2
    /\ processed = <<1, 2>>
    /\ SameTrack(1, 2)
    /\ track_tasks[1].emitted
    /\ ~track_tasks[2].emitted
    /\ track_tasks[2].pc = "done"
    /\ track_tasks[2].update.current_time = 0
    /\ Len(events) = 1

\* C29: once every handler task of a sequence of track-change updates
\* received on one connection has run, the stored track is the title and
\* artist of the last update received and the track-updated events were
\* emitted in the order the updates were received.
C29_TrackUpdateOrdering ==
    (/\ track_tasks # <<>>
     /\ \A t \in DOMAIN track_tasks :
           /\ track_tasks[t].pc = "done"
           /\ track_tasks[t].update.current_time \in {NoTime, 0}
           /\ track_tasks[t].connection = track_tasks[1].connection
     /\ \A i \in DOMAIN processed : processed[i] # Command) =>
        /\ current_track = TrackInfo(track_tasks[Len(track_tasks)].update)
        /\ \A i, j \in DOMAIN processed :
              (i < j /\ track_tasks[processed[i]].emitted
                     /\ track_tasks[processed[j]].emitted) => processed[i] < processed[j]

\* C30: a client id is in the clients map only while its connection handler
\* is running: once handle_connection has ended, by a close frame, the end
\* of the stream or a receive error, the entry of the client is not in the map.
C30_RegistryCleanup ==
    \A c \in DOMAIN connections :
        /\ c \in clients => connections[c].pc \in {"serving", "removing"}
        /\ connections[c].pc = "ended" => c \notin clients
====
